---------------------------- MODULE Spec2Model ----------------------------
(***************************************************************************)
(* A model of maksttc_cutts.c: the MEX gateway mexFunction and the three   *)
(* routines run_P, run_T and run_sttc it drives.                           *)
(*                                                                         *)
(* Time is counted in ticks, TicksPerMs ticks to the millisecond, so that  *)
(* a maximum delta-t that is not a whole number of milliseconds exists and *)
(* ceil( dtv / 0.001 ) has something to round.  Spike times, window limits *)
(* and delta-t are integers (ticks); the quotients the code forms in       *)
(* double precision (TA, TB, PA, PB and the coefficient) are exact         *)
(* rationals extended with +Inf, -Inf and NaN, i.e. IEEE arithmetic        *)
(* without rounding.                                                       *)
(***************************************************************************)
EXTENDS Integers, Sequences, FiniteSets

(* ------------------------------ bounds -------------------------------- *)

\* longest spike train handed to the function
MaxLen == 2
\* window limits are drawn from 1 .. MaxWin, spike times from 0 .. MaxWin + 1
MaxWin == 2
\* largest maximum delta-t (ticks) handed to the function
MaxDt == 2

(* ------------------------- program constants -------------------------- *)

NARGIN == 4
NARGOUT == 2
WINARG == 0
DTARG == 1
AARG == 2
BARG == 3
STTCARG == 0
\* 0.001 s, the step of the sweep, in ticks
TicksPerMs == 2

(* ------------------------- extended rationals ------------------------- *)

RECURSIVE GCD(_, _)
GCD(a, b) == IF b = 0 THEN a ELSE GCD(b, a % b)

Abs(x) == IF x < 0 THEN -x ELSE x
Sign(x) == IF x < 0 THEN -1 ELSE IF x > 0 THEN 1 ELSE 0

NaN == [k |-> "NaN", n |-> 0, d |-> 0]
Inf(s) == [k |-> "Inf", n |-> s, d |-> 0]
\* the double n / d, d # 0, in lowest terms with a positive denominator
Num(n, d) ==
  LET g == GCD(Abs(n), Abs(d))
      s == IF d < 0 THEN -1 ELSE 1
  IN  [k |-> "Num", n |-> (s * n) \div g, d |-> (s * d) \div g]

IsNum(x) == x.k = "Num"

\* x - y , x * y on finite operands (the only ones run_sttc forms)
RSub(x, y) == Num(x.n * y.d - y.n * x.d, x.d * y.d)
RMul(x, y) ==
  IF x.k = "NaN" \/ y.k = "NaN" THEN NaN
  ELSE IF IsNum(x) /\ IsNum(y) THEN Num(x.n * y.n, x.d * y.d)
  ELSE IF Sign(x.n) * Sign(y.n) = 0 THEN NaN
  ELSE Inf(Sign(x.n) * Sign(y.n))
\* x / y on finite operands: a zero divisor gives an infinity, 0 / 0 gives NaN
RDiv(x, y) ==
  IF y.n = 0
  THEN IF x.n = 0 THEN NaN ELSE Inf(Sign(x.n))
  ELSE Num(x.n * y.d, x.d * y.n)
RAdd(x, y) ==
  IF x.k = "NaN" \/ y.k = "NaN" THEN NaN
  ELSE IF IsNum(x) /\ IsNum(y) THEN Num(x.n * y.d + y.n * x.d, x.d * y.d)
  ELSE IF IsNum(x) THEN y
  ELSE IF IsNum(y) THEN x
  ELSE IF x.n = y.n THEN x ELSE NaN

(* ------------------------------- state -------------------------------- *)

VARIABLES
  prhs,    \* the input arguments: a sequence of [isDouble, data]
  nlhs,    \* number of outputs requested
  plhs,    \* the outputs returned, <<>> until the function returns
  pc,      \* position in mexFunction
  err,     \* identifier of the error raised, "" if none
  i,       \* generic counter
  dtv,     \* delta-t value
  dtn,     \* number of delta-t values
  Na, Nb,  \* number of spikes of A and B still counted
  A, B,    \* pointers into the data of A and B, as offsets from its start
  win,     \* the data win points to
  sttc,    \* allocated output data, <<>> before allocation
  DT,      \* allocated delta-t data, <<>> if not allocated
  reads,   \* the elements of A and B read by the last step: <<arg, index>>
  loc      \* locals of the last run_sttc call that got past its first test

vars == <<prhs, nlhs, plhs, pc, err, i, dtv, dtn, Na, Nb, A, B, win, sttc,
          DT, reads, loc>>

(* ----------------------------- the inputs ----------------------------- *)

Times == 0 .. (MaxWin + 1)

\* chronologically ordered spike trains of at most MaxLen spikes
Trains ==
  { s \in UNION { [1 .. n -> Times] : n \in 0 .. MaxLen } :
      \A k \in 1 .. (Len(s) - 1) : s[k] <= s[k + 1] }

Dbl(data) == [isDouble |-> TRUE, data |-> data]
NotDbl(data) == [isDouble |-> FALSE, data |-> data]

\* a call of the right shape: four doubles, win of two elements, dt scalar
Call(w0, w1, d, a, b) == <<Dbl(<<w0, w1>>), Dbl(<<d>>), Dbl(a), Dbl(b)>>

\* trains of at most one spike
ShortTrains == {t \in Trains : Len(t) <= 1}

\* calls of a wrong shape, around one well-shaped call
Misshaped ==
  LET w == Dbl(<<1, MaxWin>>)
      d == Dbl(<<MaxDt>>)
      a == Dbl(<<1>>)
      b == Dbl(<<MaxWin>>)
  IN  { <<w, d, a>>, <<w, d, a, b, b>>,
        <<NotDbl(<<1, MaxWin>>), d, a, b>>, <<Dbl(<<1>>), d, a, b>>,
        <<Dbl(<<1, MaxWin, MaxWin>>), d, a, b>>,
        <<w, NotDbl(<<MaxDt>>), a, b>>, <<w, Dbl(<<>>), a, b>>,
        <<w, Dbl(<<1, MaxDt>>), a, b>>,
        <<w, d, NotDbl(<<1>>), b>>, <<w, d, a, NotDbl(<<MaxWin>>)>> }

mxIsDouble(arg) == arg.isDouble
mxGetNumberOfElements(arg) == Len(arg.data)
mxIsScalar(arg) == Len(arg.data) = 1
mxGetScalar(arg) == arg.data[1]

\* The calls: those the input check and the window check let through, with
\* every pair of trains and one or two outputs; every window and delta-t,
\* the refused ones too, and every number of outputs, with short trains; and
\* the calls of a wrong shape
Init ==
  /\ \/ \E w0 \in 1 .. MaxWin, w1 \in 1 .. MaxWin, d \in 0 .. MaxDt,
           a \in Trains, b \in Trains :
          /\ w0 < w1
          /\ prhs = Call(w0, w1, d, a, b)
          /\ nlhs \in 1 .. NARGOUT
     \/ \E w0 \in 1 .. MaxWin, w1 \in 1 .. MaxWin, d \in -1 .. MaxDt,
           a \in ShortTrains, b \in ShortTrains :
          /\ prhs = Call(w0, w1, d, a, b)
          /\ nlhs \in 0 .. (NARGOUT + 1)
     \/ prhs \in Misshaped /\ nlhs \in 0 .. NARGOUT
  /\ plhs = <<>>
  /\ pc = "check"
  /\ err = ""
  /\ i = 0
  /\ dtv = 0
  /\ dtn = 0
  /\ Na = 0
  /\ Nb = 0
  /\ A = 0
  /\ B = 0
  /\ win = <<>>
  /\ sttc = <<>>
  /\ DT = <<>>
  /\ reads = {}
  /\ loc = <<>>

(* ------------------------------ pointers ------------------------------ *)

\* a pointer into the data of argument arg, off elements past its start
Ptr(arg, off) == [arg |-> arg, off |-> off]
\* the place p[ k ] names, and whether it lies inside the argument's data
Place(p, k) == <<p.arg, p.off + k>>
InBounds(place) ==
  0 <= place[2] /\ place[2] < Len(prhs[place[1] + 1].data)
\* the value of p[ k ], for a place inside the data
Load(p, k) == prhs[p.arg + 1].data[p.off + k + 1]

(* ------------------------------- run_P -------------------------------- *)

\* the cursor j after train 1's spike found its match: break, j kept
CursorAfterHitSkip(j) == j + 1
CursorAfterHit(j) == j

\* the for / while loops of run_P from the state ( i , j , Nab ); rd collects
\* the places read
RECURSIVE run_P_loop(_, _, _, _, _, _, _, _, _)
run_P_loop(N1, N2, dt, st1, st2, pi, pj, Nab, rd) ==
  IF ~(pi <= N1 - 1) THEN [Nab |-> Nab, rd |-> rd]
  ELSE IF ~(pj < N2)
  THEN run_P_loop(N1, N2, dt, st1, st2, pi + 1, pj, Nab, rd)
  ELSE LET x == Load(st1, pi)
           y == Load(st2, pj)
           rd2 == rd \cup {Place(st1, pi), Place(st2, pj)}
       IN  IF Abs(x - y) <= dt
           THEN run_P_loop(N1, N2, dt, st1, st2, pi + 1, CursorAfterHit(pj),
                           Nab + 1, rd2)
           ELSE IF y > x
           THEN run_P_loop(N1, N2, dt, st1, st2, pi + 1, pj, Nab, rd2)
           ELSE run_P_loop(N1, N2, dt, st1, st2, pi, pj + 1, Nab, rd2)

run_P(N1, N2, dt, st1, st2) == run_P_loop(N1, N2, dt, st1, st2, 0, 0, 0, {})

(* ------------------------------- run_T -------------------------------- *)

\* the while loop of run_T over adjacent spikes, from the state ( i , time_A )
RECURSIVE run_T_loop(_, _, _, _, _)
run_T_loop(N1, dt, st1, pi, time_A) ==
  IF ~(pi < N1 - 1) THEN time_A
  ELSE LET diff == Load(st1, pi + 1) - Load(st1, pi)
       IN  run_T_loop(N1, dt, st1, pi + 1,
                      IF diff < 2 * dt THEN time_A - 2 * dt + diff
                      ELSE time_A)

run_T(N1, dt, start, end, st1) ==
  LET time_max == 2 * N1 * dt
  IN  IF N1 = 1
      THEN IF (Load(st1, 0) - start) < dt
           THEN time_max - start + Load(st1, 0) - dt
           ELSE IF (Load(st1, 0) + dt) > end
           THEN time_max - Load(st1, 0) - dt + end
           ELSE time_max
      ELSE LET t1 == run_T_loop(N1, dt, st1, 0, time_max)
               t2 == IF (Load(st1, 0) - start) < dt
                     THEN t1 - start + Load(st1, 0) - dt
                     ELSE t1
           IN  IF (end - Load(st1, N1 - 1)) < dt
               THEN t2 - Load(st1, N1 - 1) - dt + end
               ELSE t2

\* the places run_T reads
run_T_reads(N1, st1) ==
  IF N1 = 1 THEN {Place(st1, 0)}
  ELSE UNION { {Place(st1, k), Place(st1, k + 1)} : k \in 0 .. (N1 - 2) }
       \cup {Place(st1, 0), Place(st1, N1 - 1)}

(* ------------------------------ run_sttc ------------------------------ *)

Half == Num(1, 2)
One == Num(1, 1)

\* the last statement of run_sttc
CoefficientSameT(PA, PB, TA, TB) ==
  RAdd(RMul(Half, RDiv(RSub(PA, TA), RSub(One, RMul(TA, PA)))),
       RMul(Half, RDiv(RSub(PB, TA), RSub(One, RMul(TA, PB)))))
Coefficient(PA, PB, TA, TB) ==
  RAdd(RMul(Half, RDiv(RSub(PA, TB), RSub(One, RMul(TB, PA)))),
       RMul(Half, RDiv(RSub(PB, TA), RSub(One, RMul(TA, PB)))))

\* run_sttc: the value stored through index, the places read, and the
\* locals ( <<>> when the function returns at its first test )
run_sttc(N1, N2, dt, Time, st1, st2) ==
  IF N1 = 0 \/ N2 = 0
  THEN [index |-> NaN, rd |-> {}, loc |-> <<>>]
  ELSE LET T == Time[2] - Time[1]
           tA == run_T(N1, dt, Time[1], Time[2], st1)
           tB == run_T(N2, dt, Time[1], Time[2], st2)
           pA == run_P(N1, N2, dt, st1, st2)
           pB == run_P(N2, N1, dt, st2, st1)
           TA == Num(tA, T)
           TB == Num(tB, T)
           PA == Num(pA.Nab, N1)
           PB == Num(pB.Nab, N2)
       IN  [index |-> Coefficient(PA, PB, TA, TB),
            rd |-> run_T_reads(N1, st1) \cup run_T_reads(N2, st2)
                   \cup pA.rd \cup pB.rd,
            loc |-> [N1 |-> N1, N2 |-> N2, dt |-> dt, tA |-> tA, tB |-> tB,
                     nA |-> pA.Nab, nB |-> pB.Nab]]

(* ---------------------------- mexFunction ----------------------------- *)

\* the input check: the identifier of the error it raises, "" if none
InputErrorNoSign ==
  IF Len(prhs) # NARGIN THEN "nargsin"
  ELSE IF NARGOUT < nlhs THEN "nargsout"
  ELSE IF ~mxIsDouble(prhs[WINARG + 1])
          \/ mxGetNumberOfElements(prhs[WINARG + 1]) # 2 THEN "win"
  ELSE IF ~mxIsDouble(prhs[DTARG + 1]) \/ ~mxIsScalar(prhs[DTARG + 1])
  THEN "dt"
  ELSE IF ~mxIsDouble(prhs[AARG + 1]) \/ ~mxIsDouble(prhs[BARG + 1])
  THEN "AB"
  ELSE ""
InputError ==
  IF Len(prhs) # NARGIN THEN "nargsin"
  ELSE IF NARGOUT < nlhs THEN "nargsout"
  ELSE IF ~mxIsDouble(prhs[WINARG + 1])
          \/ mxGetNumberOfElements(prhs[WINARG + 1]) # 2 THEN "win"
  ELSE IF ~mxIsDouble(prhs[DTARG + 1]) \/ ~mxIsScalar(prhs[DTARG + 1])
  THEN "dt"
  ELSE IF ~mxIsDouble(prhs[AARG + 1]) \/ ~mxIsDouble(prhs[BARG + 1])
  THEN "AB"
  ELSE IF mxGetScalar(prhs[DTARG + 1]) < 0 THEN "neg_dt"
  ELSE ""

\* mexErrMsgIdAndTxt does not return: the call ends with the error
InputCheck ==
  /\ pc = "check"
  /\ IF InputError # ""
     THEN /\ err' = InputError
          /\ pc' = "error"
          /\ dtv' = IF InputError = "neg_dt"
                    THEN mxGetScalar(prhs[DTARG + 1]) ELSE dtv
     ELSE /\ dtv' = mxGetScalar(prhs[DTARG + 1])
          /\ pc' = "prepare"
          /\ err' = err
  /\ reads' = {}
  /\ UNCHANGED <<prhs, nlhs, plhs, i, dtn, Na, Nb, A, B, win, sttc, DT, loc>>

\* ceil( x / y ) for y > 0
Ceil(x, y) == -((-x) \div y)

\* number of millisecond steps from 0 to dt, rounded up, zero included
StepsRoundedDown(dt) == (dt \div TicksPerMs) + 1
Steps(dt) == Ceil(dt, TicksPerMs) + 1

\* mxCalloc: n doubles, all zero
mxCalloc(n) == [k \in 1 .. n |-> Num(0, 1)]

Preparation ==
  /\ pc = "prepare"
  /\ dtn' = Steps(dtv)
  /\ Na' = mxGetNumberOfElements(prhs[AARG + 1])
  /\ Nb' = mxGetNumberOfElements(prhs[BARG + 1])
  /\ win' = prhs[WINARG + 1].data
  /\ A' = 0
  /\ B' = 0
  /\ sttc' = mxCalloc(dtn')
  /\ DT' = IF 1 < nlhs THEN mxCalloc(dtn') ELSE DT
  /\ pc' = "winlim"
  /\ reads' = {}
  /\ UNCHANGED <<prhs, nlhs, plhs, err, i, dtv, loc>>

\* win( 2 ) must be greater than win( 1 )
WindowCheck ==
  /\ pc = "winlim"
  /\ IF win[2] <= win[1]
     THEN err' = "winlim" /\ pc' = "error"
     ELSE err' = err /\ pc' = "trimA"
  /\ reads' = {}
  /\ UNCHANGED <<prhs, nlhs, plhs, i, dtv, dtn, Na, Nb, A, B, win, sttc, DT,
                 loc>>

\* what reading a place outside the data may give, when it gives anything
Garbage == Times

\* one test of  while ( *A < win[ 0 ]  &&  Na ) : *A is read first.  With A
\* at the end of the data (no spike left, or none to begin with) the read is
\* outside the data: the call dies there, or the read gives some value
TrimA ==
  /\ pc = "trimA"
  /\ reads' = {Place(Ptr(AARG, A), 0)}
  /\ \/ /\ ~InBounds(Place(Ptr(AARG, A), 0))
        /\ pc' = "crashed"
        /\ UNCHANGED <<A, Na>>
     \/ \E v \in IF InBounds(Place(Ptr(AARG, A), 0))
                 THEN {Load(Ptr(AARG, A), 0)} ELSE Garbage :
          IF v < win[1] /\ Na # 0
          THEN A' = A + 1 /\ Na' = Na - 1 /\ pc' = pc
          ELSE A' = A /\ Na' = Na /\ pc' = "trimB"
  /\ UNCHANGED <<prhs, nlhs, plhs, err, i, dtv, dtn, Nb, B, win, sttc, DT,
                 loc>>

TrimB ==
  /\ pc = "trimB"
  /\ reads' = {Place(Ptr(BARG, B), 0)}
  /\ \/ /\ ~InBounds(Place(Ptr(BARG, B), 0))
        /\ pc' = "crashed"
        /\ UNCHANGED <<B, Nb>>
     \/ \E v \in IF InBounds(Place(Ptr(BARG, B), 0))
                 THEN {Load(Ptr(BARG, B), 0)} ELSE Garbage :
          IF v < win[1] /\ Nb # 0
          THEN B' = B + 1 /\ Nb' = Nb - 1 /\ pc' = pc
          ELSE B' = B /\ Nb' = Nb /\ pc' = "scanA"
  /\ i' = 0
  /\ UNCHANGED <<prhs, nlhs, plhs, err, dtv, dtn, Na, A, win, sttc, DT, loc>>

\* the test of the scan for the last spike in the window
StaysBeforeEnd(x, w1) == x < w1
StaysInWindow(x, w1) == x <= w1

\* one test of  for ( i = 0 ; i < Na && A[ i ] <= win[ 1 ] ; i++ ) , and
\* Na -= ( Na - i )  when it fails
ScanA ==
  /\ pc = "scanA"
  /\ IF i < Na /\ StaysInWindow(Load(Ptr(AARG, A), i), win[2])
     THEN i' = i + 1 /\ Na' = Na /\ pc' = pc
     ELSE i' = 0 /\ Na' = Na - (Na - i) /\ pc' = "scanB"
  /\ reads' = IF i < Na THEN {Place(Ptr(AARG, A), i)} ELSE {}
  /\ UNCHANGED <<prhs, nlhs, plhs, err, dtv, dtn, Nb, A, B, win, sttc, DT,
                 loc>>

ScanB ==
  /\ pc = "scanB"
  /\ IF i < Nb /\ StaysInWindow(Load(Ptr(BARG, B), i), win[2])
     THEN i' = i + 1 /\ Nb' = Nb /\ pc' = pc
     ELSE i' = 0 /\ Nb' = Nb - (Nb - i) /\ pc' = "sweep"
  /\ reads' = IF i < Nb THEN {Place(Ptr(BARG, B), i)} ELSE {}
  /\ UNCHANGED <<prhs, nlhs, plhs, err, dtv, dtn, Na, A, B, win, sttc, DT,
                 loc>>

\* what one pass of the delta-t loop leaves alone
SweepReclips ==
  /\ Na' = IF Na > 0 /\ Load(Ptr(AARG, A), Na - 1) + dtv' > win[2]
           THEN Na - 1 ELSE Na
  /\ UNCHANGED <<prhs, nlhs, plhs, err, dtn, Nb, A, B, win>>
SweepFrame == UNCHANGED <<prhs, nlhs, plhs, err, dtn, Na, Nb, A, B, win>>

\* one pass of the loop over all delta-t values
SweepStep ==
  /\ pc = "sweep"
  /\ i < dtn
  /\ dtv' = i * TicksPerMs
  /\ DT' = IF 1 < nlhs THEN [DT EXCEPT ![i + 1] = dtv'] ELSE DT
  /\ LET r == run_sttc(Na, Nb, dtv', win, Ptr(AARG, A), Ptr(BARG, B))
     IN  /\ sttc' = [sttc EXCEPT ![i + 1] = r.index]
         /\ reads' = r.rd
         /\ loc' = r.loc
  /\ i' = i + 1
  /\ pc' = pc
  /\ SweepFrame

\* an output array of M rows and N columns holding pr
mxArray(M, N, pr) == [M |-> M, N |-> N, pr |-> pr]

ReturnOutput ==
  /\ pc = "sweep"
  /\ ~(i < dtn)
  /\ plhs' = IF nlhs <= 1 THEN <<mxArray(dtn, 1, sttc)>>
             ELSE <<mxArray(dtn, 1, sttc), mxArray(dtn, 1, DT)>>
  /\ pc' = "done"
  /\ reads' = {}
  /\ UNCHANGED <<prhs, nlhs, err, i, dtv, dtn, Na, Nb, A, B, win, sttc, DT,
                 loc>>

Next ==
  \/ InputCheck
  \/ Preparation
  \/ WindowCheck
  \/ TrimA
  \/ TrimB
  \/ ScanA
  \/ ScanB
  \/ SweepStep
  \/ ReturnOutput

Spec == Init /\ [][Next]_vars

(* --------------------- what the claims speak about -------------------- *)

\* the call's inputs, read off the arguments
ShapeOK ==
  /\ Len(prhs) = 4
  /\ \A k \in 1 .. 4 : prhs[k].isDouble
  /\ Len(prhs[1].data) = 2
  /\ Len(prhs[2].data) = 1
InvalidInput ==
  \/ ~ShapeOK
  \/ prhs[2].data[1] < 0
  \/ prhs[1].data[2] <= prhs[1].data[1]
ValidCall == ~InvalidInput /\ nlhs <= 2
max_dt == prhs[2].data[1]
start == prhs[1].data[1]
end == prhs[1].data[2]
train_a == prhs[3].data
train_b == prhs[4].data

\* the spikes of a train inside the window, by definition
InWindow(t) == start <= t /\ t <= end
ClipRef(train) == SelectSeq(train, InWindow)

\* the clipped train the program holds: N spikes from pointer p on
Held(p, N) == [k \in 1 .. N |-> Load(p, k - 1)]
HeldA == Held(Ptr(AARG, A), Na)
HeldB == Held(Ptr(BARG, B), Nb)

Clipped == pc \in {"sweep", "done"}

\* number of spikes of t1 with a spike of t2 within dt, by definition
CountNear(t1, t2, dt) ==
  Cardinality({ x \in 1 .. Len(t1) :
                  \E y \in 1 .. Len(t2) : Abs(t1[x] - t2[y]) <= dt })

\* ticks of the window within dt of a spike of t, by definition
Tiled(t, dt) ==
  Cardinality({ u \in start .. (end - 1) :
                  \E x \in 1 .. Len(t) : t[x] - dt <= u /\ u + 1 <= t[x] + dt })

\* 2 N dt less the overlap of adjacent spikes and less each overhang past a
\* window limit, the two overhangs taken independently
RECURSIVE Overlaps(_, _, _)
Overlaps(t, x, dt) ==
  IF x >= Len(t) THEN 0
  ELSE (IF t[x + 1] - t[x] < 2 * dt THEN 2 * dt - (t[x + 1] - t[x]) ELSE 0)
       + Overlaps(t, x + 1, dt)
BothClips(t, dt) ==
  2 * Len(t) * dt - Overlaps(t, 1, dt)
  - (IF t[1] - start < dt THEN dt - (t[1] - start) ELSE 0)
  - (IF end - t[Len(t)] < dt THEN dt - (end - t[Len(t)]) ELSE 0)

(* ------------------------------- claims ------------------------------- *)

\* C1: a valid call returns ceil( max_dt / 0.001 ) + 1 coefficients and, when
\* the second output is requested, as many delta-t values, the k-th (from 0)
\* being k milliseconds
C1_SweepLength ==
  pc = "done" =>
    LET n == plhs[STTCARG + 1].M
    IN  /\ ValidCall
        /\ Len(plhs[STTCARG + 1].pr) = n
        /\ plhs[STTCARG + 1].N = 1
        /\ (n - 1) * TicksPerMs >= max_dt
        /\ (n - 2) * TicksPerMs < max_dt
        /\ Len(plhs) = (IF nlhs = 2 THEN 2 ELSE 1)
        /\ nlhs = 2 =>
             /\ plhs[DTARG + 1].M = n
             /\ plhs[DTARG + 1].N = 1
             /\ Len(plhs[DTARG + 1].pr) = n
             /\ \A k \in 0 .. (n - 1) :
                  plhs[DTARG + 1].pr[k + 1] = k * TicksPerMs
C1_Witness ==
  /\ pc = "done"
  /\ nlhs = 2
  /\ max_dt % TicksPerMs # 0
  /\ Len(plhs[DTARG + 1].pr) >= 2

\* C2: a valid call with a train empty after clipping ends normally, every
\* coefficient NaN
C2_EmptyTrainAllNaN ==
  (ValidCall /\ (ClipRef(train_a) = <<>> \/ ClipRef(train_b) = <<>>)) =>
    /\ pc # "crashed"
    /\ pc = "done" =>
         \A k \in 1 .. Len(plhs[STTCARG + 1].pr) :
           plhs[STTCARG + 1].pr[k] = NaN

\* C3: clipping keeps exactly the spikes with start <= t <= end, in order, as
\* the one run of the train that follows the spikes before the window
C3_ClipExact ==
  Clipped =>
    /\ HeldA = ClipRef(train_a)
    /\ HeldB = ClipRef(train_b)
    /\ A = Cardinality({k \in 1 .. Len(train_a) : train_a[k] < start})
    /\ B = Cardinality({k \in 1 .. Len(train_b) : train_b[k] < start})
C3_Witness ==
  /\ pc = "sweep"
  /\ A = 1 /\ Na = 1 /\ HeldA[1] = start
  /\ B = 0 /\ Nb = 1 /\ Len(train_b) = 2 /\ HeldB[1] = end

\* C4: run_P's count is the number of spikes of its first train with a spike
\* of the second within dt
C4_CountIsReference ==
  loc # <<>> =>
    /\ loc.nA = CountNear(HeldA, HeldB, loc.dt)
    /\ loc.nB = CountNear(HeldB, HeldA, loc.dt)
C4_Witness ==
  /\ loc # <<>>
  /\ loc.dt = 0
  /\ loc.N1 = 2 /\ loc.N2 = 2
  /\ loc.nA = 2 /\ loc.nB = 1

\* C5: run_T returns the duration of the part of the window within dt of a
\* spike of the train
C5_TimeIsTiledDuration ==
  loc # <<>> =>
    /\ loc.tA = Tiled(HeldA, loc.dt)
    /\ loc.tB = Tiled(HeldB, loc.dt)

\* C6: every coefficient computed equals the one run_sttc gives with the two
\* trains exchanged
C6_Symmetric ==
  Clipped =>
    \A k \in 1 .. i :
      sttc[k] = run_sttc(Nb, Na, (k - 1) * TicksPerMs, win, Ptr(BARG, B),
                         Ptr(AARG, A)).index
C6_Witness ==
  /\ pc = "done"
  /\ Na # Nb
  /\ HeldA # <<>> /\ HeldB # <<>>
  /\ \E k \in 1 .. dtn : IsNum(sttc[k]) /\ sttc[k].n # 0

\* C7: a call with invalid input never gets past the window check: it clips
\* nothing, computes no coefficient and returns no output
C7_RejectedEarly ==
  InvalidInput =>
    /\ pc \in {"check", "prepare", "winlim", "error"}
    /\ pc = "error" => err # ""
    /\ pc # "error" => ENABLED Next
    /\ ~ShapeOK \/ max_dt < 0 => pc \in {"check", "error"}
    /\ plhs = <<>>
    /\ loc = <<>>
    /\ reads = {}
    /\ A = 0 /\ B = 0 /\ i = 0
    /\ \A k \in 1 .. Len(sttc) : sttc[k] = Num(0, 1)
C7_Witness ==
  /\ pc = "error"
  /\ err = "winlim"
  /\ Len(sttc) > 1

\* C8: run_T takes off the overhang past the window start and the overhang
\* past the window end independently, for one spike as for several
C8_BothClipsApplied ==
  loc # <<>> =>
    /\ loc.tA = BothClips(HeldA, loc.dt)
    /\ loc.tB = BothClips(HeldB, loc.dt)

\* C9: once the trains are clipped, no step changes the clipped start
\* positions, the clipped counts, the window or the input arguments
C9_ClipOnce ==
  [][Clipped => UNCHANGED <<A, Na, B, Nb, win, prhs>>]_vars
C9_Witness ==
  /\ pc = "sweep"
  /\ i >= 2
  /\ A > 0 /\ Na > 0
  /\ Nb > 0 /\ B + Nb < Len(train_b)

\* C10: every element read lies inside the data of the train read
C10_ReadsInBounds == \A r \in reads : InBounds(r)

==========================================================================
